---- MODULE Spec2Model ----
(***************************************************************************)
(* tap-tiingo: the extraction pipeline of the Tiingo tap.                  *)
(*                                                                         *)
(*   SpecCache  TapTiingo.get_cached_tickers called by several threads     *)
(*              (tap.py), one step per line that reads or writes shared    *)
(*              state.                                                     *)
(*   SpecFetch  TiingoStream.fetch_with_retry under its backoff decorator  *)
(*              (client.py).                                               *)
(*   SpecRun    TiingoStream.get_records for one partition (client.py,     *)
(*              streams.py).                                               *)
(*   SpecXform  TickerPartitionStream.post_process (streams.py).           *)
(*                                                                         *)
(* backoff, requests and the singer SDK are libraries: their part is       *)
(* modelled as their documentation gives it (backoff.on_exception's retry  *)
(* loop, raise_for_status, the default X-Next-Page header paginator).      *)
(***************************************************************************)
EXTENDS Integers, Sequences, FiniteSets, TLC

VARIABLES
    \* ---- tap.py: TapTiingo and the threads calling get_cached_tickers
    tickers_config,     \* self.config["tickers"]
    cached_tickers,     \* self._cached_tickers (None, or a list of partitions)
    ticker_lock,        \* _ticker_lock: 0 when free, else the holding thread
    pc,                 \* per thread: the line of get_cached_tickers it is at
    ret,                \* per thread: the value its last call returned
    retPath,            \* per thread: how its last call ended
    warmAtCall,         \* per thread: was the cache set when its call began
    computations,       \* how often line 80 or 87 assigned _cached_tickers
    \* ---- client.py: one call of fetch_with_retry under backoff.on_exception
    failsBefore,        \* upstream: how many attempts fail before the first success
    fpc,                \* where the retry loop is
    tries,              \* backoff's tries: attempts made so far
    now,                \* seconds since the call began
    elapsed,            \* backoff's elapsed, read when the current attempt began
    expo_n,             \* the counter n of the backoff.expo generator
    exc,                \* the exception of the latest failed attempt
    allRetryable,       \* every failure so far was one the policy retries
    response,           \* the response fetch_with_retry returned
    ferror,             \* the exception fetch_with_retry let out
    \* ---- client.py, streams.py: get_records for one partition of a stream
    stream,             \* the stream class: its name
    config,             \* self.config: start_date and end_date ("" when unset)
    replicationKeyValue,\* the bookmark recorded for this partition ("" when none)
    context,            \* the partition context handed to get_records
    upstream,           \* upstream: its pages and the shape of its bodies
    rpc,                \* where get_records is
    next_page_token,    \* get_records' next_page_token ("" for None)
    url,                \* the url of the request built last
    params,             \* the params of the request built last
    resp,               \* the response fetched last
    pending,            \* records parsed from resp and not yet yielded
    iterations,         \* passes of the while loop begun
    fetched,            \* the page each fetch_with_retry call got, in order
    emitted,            \* the records yielded, in order
    rerror,             \* the exception get_records let out ("" for none)
    \* ---- streams.py, client.py: one call of post_process
    xstream,            \* the class whose post_process is called
    xcontext,           \* the context argument
    raw,                \* the row as it was handed in
    row,                \* the row argument, which post_process writes to
    out,                \* the record post_process returned
    xpc,                \* "call", then "returned" or "raised"
    \* ---- streams.py, client.py: the sync of one stream over its partitions
    partitions,         \* the value of the partitions property
    partIdx,            \* how many partitions get_records was begun for
    startsAt,           \* per partition begun: Len(emitted) when it began
    syncpc,             \* "start", "loop", then "end" or "raised"
    \* ---- client.py: _generate_surrogate_key called on two records
    dataA,              \* the first record
    dataB,              \* the second record, with the keys of the first
    keyA,               \* the key returned for the first ("" before the call)
    keyB,               \* the key returned for the second
    kpc,                \* "call", then "returned"
    \* ---- client.py: what fetch_with_retry and parse_response log and raise
    lurl,               \* the url argument, as pieces of text
    lparams,            \* the params argument
    ltries,             \* backoff's tries for this call
    lexc,               \* the text of the exception of the failed attempt
    logs,               \* the messages logged, in order
    lerror,             \* the text of the exception let out (<<>> for none)
    lpc,                \* "l131", "except", "l178", "returned" or "raised"
    \* ---- client.py: _to_snake_case applied to a key, and to its result
    camel_str,          \* the key, as its characters
    snake,              \* _to_snake_case(camel_str)
    again,              \* _to_snake_case(snake)
    spc                 \* "call", "once", "twice"

cacheVars == <<tickers_config, cached_tickers, ticker_lock, pc, ret, retPath,
               warmAtCall, computations>>

fetchVars == <<failsBefore, fpc, tries, now, elapsed, expo_n, exc,
               allRetryable, response, ferror>>

runVars == <<stream, config, replicationKeyValue, context, upstream, rpc,
             next_page_token, url, params, resp, pending, iterations, fetched,
             emitted, rerror>>

xformVars == <<xstream, xcontext, raw, row, out, xpc>>

syncVars == <<partitions, partIdx, startsAt, syncpc>>

keyVars == <<dataA, dataB, keyA, keyB, kpc>>

logVars == <<lurl, lparams, ltries, lexc, logs, lerror, lpc>>

snakeVars == <<camel_str, snake, again, spc>>

vars == <<cacheVars, fetchVars, runVars, xformVars, syncVars, keyVars, logVars, snakeVars>>

otherThanCache == <<fetchVars, runVars, xformVars, syncVars, keyVars, logVars, snakeVars>>
otherThanFetch == <<cacheVars, runVars, xformVars, syncVars, keyVars, logVars, snakeVars>>
otherThanRun == <<cacheVars, fetchVars, xformVars, syncVars, keyVars, logVars, snakeVars>>
otherThanXform == <<cacheVars, fetchVars, runVars, syncVars, keyVars, logVars, snakeVars>>

(***************************************************************************)
(* Bounds of the model.                                                    *)
(***************************************************************************)
NumThreads == 3
MaxTickers == 2
MaxPages == 3
MaxRecs == 2
MaxFetches == 4
MaxRowLen == 2
MaxKeyFields == 2
MaxLogAttempts == 3
MaxKeyLen == 4

Threads == 1..NumThreads

(***************************************************************************)
(* tap.py                                                                  *)
(***************************************************************************)

\* An element of a configured ticker list: a string, or (the code does not
\* look) something that is not a string.
StrItem(s) == [isStr |-> TRUE, v |-> s]
NonStrItem(s) == [isStr |-> FALSE, v |-> s]
TickerItems == {StrItem("AAPL"), StrItem("MSFT"), NonStrItem("7")}

RECURSIVE SeqsUpTo(_, _)
SeqsUpTo(S, n) ==
    IF n = 0 THEN {<<>>}
    ELSE LET shorter == SeqsUpTo(S, n - 1)
         IN shorter \cup {Append(q, x) : q \in {r \in shorter : Len(r) = n - 1}, x \in S}

\* The values self.config["tickers"] can hold: a string, a list, or anything
\* else (None, a number, a mapping).
StrConfig(s) == [kind |-> "str", s |-> s, items |-> <<>>]
ListConfig(l) == [kind |-> "list", s |-> "", items |-> l]
OtherConfig == [kind |-> "other", s |-> "", items |-> <<>>]
TickersConfigs ==
    {StrConfig("*"), StrConfig("AAPL"), OtherConfig}
        \cup {ListConfig(l) : l \in SeqsUpTo(TickerItems, MaxTickers)}

None == [isNone |-> TRUE, val |-> <<>>]
Some(v) == [isNone |-> FALSE, val |-> v]

\* tap.py 80-85: the default set the sentinel resolves to.
DefaultTickers ==
    << [ticker |-> StrItem("AAPL")], [ticker |-> StrItem("GOOGL")],
       [ticker |-> StrItem("MSFT")], [ticker |-> StrItem("TSLA")] >>

\* tap.py 87: [{"ticker": ticker} for ticker in tickers_config]
TickersFromList(l) == [i \in 1..Len(l) |-> [ticker |-> l[i]]]

\* tap.py 77, 86, 88: which branch the configuration takes.
IsSentinel(cfg) == cfg.kind = "str" /\ cfg.s = "*"
IsList(cfg) == cfg.kind = "list"
ValidConfig(cfg) == IsSentinel(cfg) \/ IsList(cfg)

\* The tap as constructed, with a given tickers setting.
CacheStart(cfg) ==
    /\ tickers_config = cfg
    /\ cached_tickers = None
    /\ ticker_lock = 0
    /\ pc = [t \in Threads |-> "idle"]
    /\ ret = [t \in Threads |-> None]
    /\ retPath = [t \in Threads |-> "none"]
    /\ warmAtCall = [t \in Threads |-> FALSE]
    /\ computations = 0

CacheInit == \E cfg \in TickersConfigs : CacheStart(cfg)

\* A thread enters get_cached_tickers.
Call(t) ==
    /\ pc[t] = "idle"
    /\ warmAtCall' = [warmAtCall EXCEPT ![t] = ~cached_tickers.isNone]
    /\ pc' = [pc EXCEPT ![t] = "l68"]
    /\ retPath' = [retPath EXCEPT ![t] = "none"]
    /\ UNCHANGED <<tickers_config, cached_tickers, ticker_lock, ret, computations>>
    /\ UNCHANGED otherThanCache

\* Fault variant of FirstCheck: the unlocked check is left out and every call
\* goes on to the lock.
FirstCheckLockIfSet(t) ==
    /\ pc[t] = "l68"
    /\ pc' = [pc EXCEPT ![t] = "l71"]
    /\ UNCHANGED <<tickers_config, cached_tickers, ticker_lock, ret, retPath,
                   warmAtCall, computations>>
    /\ UNCHANGED otherThanCache

\* tap.py 68-69: the unlocked check; a set cache is returned at once.
FirstCheck(t) ==
    /\ pc[t] = "l68"
    /\ IF ~cached_tickers.isNone
       THEN /\ ret' = [ret EXCEPT ![t] = Some(cached_tickers.val)]
            /\ retPath' = [retPath EXCEPT ![t] = "fast"]
            /\ pc' = [pc EXCEPT ![t] = "idle"]
       ELSE /\ pc' = [pc EXCEPT ![t] = "l71"]
            /\ UNCHANGED <<ret, retPath>>
    /\ UNCHANGED <<tickers_config, cached_tickers, ticker_lock, warmAtCall,
                   computations>>
    /\ UNCHANGED otherThanCache

\* tap.py 71: with self._ticker_lock, the blocking acquire.
Acquire(t) ==
    /\ pc[t] = "l71"
    /\ ticker_lock = 0
    /\ ticker_lock' = t
    /\ pc' = [pc EXCEPT ![t] = "l72"]
    /\ UNCHANGED <<tickers_config, cached_tickers, ret, retPath, warmAtCall,
                   computations>>
    /\ UNCHANGED otherThanCache

\* Fault variant of SecondCheck: the check under the lock is left out.
SecondCheckAlwaysCompute(t) ==
    /\ pc[t] = "l72"
    /\ pc' = [pc EXCEPT ![t] = "l75"]
    /\ UNCHANGED <<tickers_config, cached_tickers, ticker_lock, ret, retPath,
                   warmAtCall, computations>>
    /\ UNCHANGED otherThanCache

\* tap.py 72-73: the check repeated under the lock.
SecondCheck(t) ==
    /\ pc[t] = "l72"
    /\ IF ~cached_tickers.isNone
       THEN /\ ret' = [ret EXCEPT ![t] = Some(cached_tickers.val)]
            /\ retPath' = [retPath EXCEPT ![t] = "locked"]
            /\ pc' = [pc EXCEPT ![t] = "l73_exit"]
       ELSE /\ pc' = [pc EXCEPT ![t] = "l75"]
            /\ UNCHANGED <<ret, retPath>>
    /\ UNCHANGED <<tickers_config, cached_tickers, ticker_lock, warmAtCall,
                   computations>>
    /\ UNCHANGED otherThanCache

\* tap.py 73: the return inside the with block leaves it, releasing the lock.
ExitReturn(t) ==
    /\ pc[t] = "l73_exit"
    /\ ticker_lock' = 0
    /\ pc' = [pc EXCEPT ![t] = "idle"]
    /\ UNCHANGED <<tickers_config, cached_tickers, ret, retPath, warmAtCall,
                   computations>>
    /\ UNCHANGED otherThanCache

\* tap.py 75-89: the computation from the configuration.
Compute(t) ==
    /\ pc[t] = "l75"
    /\ IF IsSentinel(tickers_config)
       THEN /\ cached_tickers' = Some(DefaultTickers)
            /\ computations' = computations + 1
            /\ pc' = [pc EXCEPT ![t] = "l90_exit"]
       ELSE IF IsList(tickers_config)
       THEN /\ cached_tickers' = Some(TickersFromList(tickers_config.items))
            /\ computations' = computations + 1
            /\ pc' = [pc EXCEPT ![t] = "l90_exit"]
       ELSE /\ pc' = [pc EXCEPT ![t] = "l89_exit"]
            /\ UNCHANGED <<cached_tickers, computations>>
    /\ UNCHANGED <<tickers_config, ticker_lock, ret, retPath, warmAtCall>>
    /\ UNCHANGED otherThanCache

\* tap.py 71, 90: the with block ends normally, releasing the lock.
ExitWith(t) ==
    /\ pc[t] = "l90_exit"
    /\ ticker_lock' = 0
    /\ pc' = [pc EXCEPT ![t] = "l91"]
    /\ UNCHANGED <<tickers_config, cached_tickers, ret, retPath, warmAtCall,
                   computations>>
    /\ UNCHANGED otherThanCache

ExitRaiseKeepingLock(t) ==
    /\ pc[t] = "l89_exit"
    /\ retPath' = [retPath EXCEPT ![t] = "raised"]
    /\ pc' = [pc EXCEPT ![t] = "idle"]
    /\ UNCHANGED <<tickers_config, cached_tickers, ticker_lock, ret, warmAtCall,
                   computations>>
    /\ UNCHANGED otherThanCache

\* tap.py 89: the ValueError leaves the with block, releasing the lock, and
\* propagates to the caller.
ExitRaise(t) ==
    /\ pc[t] = "l89_exit"
    /\ ticker_lock' = 0
    /\ retPath' = [retPath EXCEPT ![t] = "raised"]
    /\ pc' = [pc EXCEPT ![t] = "idle"]
    /\ UNCHANGED <<tickers_config, cached_tickers, ret, warmAtCall, computations>>
    /\ UNCHANGED otherThanCache

\* tap.py 91: return self._cached_tickers, read after the lock is released.
FinalReturn(t) ==
    /\ pc[t] = "l91"
    /\ ret' = [ret EXCEPT ![t] = Some(cached_tickers.val)]
    /\ retPath' = [retPath EXCEPT ![t] = "computed"]
    /\ pc' = [pc EXCEPT ![t] = "idle"]
    /\ UNCHANGED <<tickers_config, cached_tickers, ticker_lock, warmAtCall,
                   computations>>
    /\ UNCHANGED otherThanCache

CacheNext ==
    \E t \in Threads :
        \/ Call(t)
        \/ FirstCheck(t)
        \/ Acquire(t)
        \/ SecondCheck(t)
        \/ ExitReturn(t)
        \/ Compute(t)
        \/ ExitWith(t)
        \/ ExitRaise(t)
        \/ FinalReturn(t)

(***************************************************************************)
(* client.py: fetch_with_retry and its backoff.on_exception decorator      *)
(***************************************************************************)

\* client.py 112-118: the decorator's arguments (backoff.expo's factor is
\* left at 1).
base == 5
max_value == 300
max_tries == 12
max_time == 1800
\* client.py 140: timeout=self.timeout, the SDK's 300 seconds.
timeout == 300

\* What one attempt (client.py 135-142) can end in: a response with a
\* status, a requests transport exception (timeout, connection reset), or an
\* exception that is no RequestException.
Statuses == {200, 400, 404, 429, 500, 501, 502, 503, 504}
HttpOutcome(st) == [kind |-> "http", status |-> st, hasResponse |-> TRUE]
TransportOutcome(k) == [kind |-> k, status |-> 0, hasResponse |-> FALSE]
NoOutcome == [kind |-> "none", status |-> 0, hasResponse |-> FALSE]

\* client.py 142: response.raise_for_status() raises HTTPError for 4xx, 5xx.
RaisesForStatus(st) == 400 <= st /\ st < 600

SuccessOutcomes == {HttpOutcome(st) : st \in {x \in Statuses : ~RaisesForStatus(x)}}
FailureOutcomes ==
    {HttpOutcome(st) : st \in {x \in Statuses : RaisesForStatus(x)}}
        \cup {TransportOutcome("Timeout"), TransportOutcome("ConnectionError"),
              TransportOutcome("OtherException")}

\* client.py 113: the exceptions the decorator catches,
\* requests.exceptions.RequestException and its subclasses.
IsRequestException(o) == o.kind \in {"http", "Timeout", "ConnectionError"}

\* Fault variants of giveup: one gives up on nothing, one leaves 503 out of
\* the retried statuses.
giveup_never(e) == FALSE

giveup_on_503(e) ==
    /\ e.kind = "http"
    /\ e.hasResponse
    /\ e.status \notin {429, 500, 502, 504}

\* client.py 119-123: the giveup predicate.
giveup(e) ==
    /\ e.kind = "http"
    /\ e.hasResponse
    /\ e.status \notin {429, 500, 502, 503, 504}

\* Fault variant of max_tries_exceeded: the count is never checked.
max_tries_unchecked(n) == FALSE

\* client.py 117: backoff's max_tries_exceeded.
max_tries_exceeded(n) == n = max_tries

\* client.py 118: backoff's max_time_exceeded.
max_time_exceeded(el) == el >= max_time

RECURSIVE Pow(_, _)
Pow(b, n) == IF n = 0 THEN 1 ELSE b * Pow(b, n - 1)

\* client.py 112-115: backoff.expo(base=5, max_value=300) with its counter
\* at n: base ** n while that is below max_value, then max_value for good.
expo(n) == IF Pow(base, n) < max_value THEN Pow(base, n) ELSE max_value
expo_next(n) == IF Pow(base, n) < max_value THEN n + 1 ELSE n

\* client.py 116: backoff.full_jitter draws uniformly from [0, value]; the
\* two ends stand for the draw.
full_jitter(value) == {0, value}

Min(a, b) == IF a < b THEN a ELSE b

\* backoff's _next_wait: never sleep past what is left of max_time.
next_wait(jittered, el) == Min(jittered, max_time - el)

\* How long one attempt takes: no time, or all of the request timeout.
Durations == {0, timeout}

\* The failures the retry policy is stated for: transport failures and the
\* five statuses.
PolicyRetryable(o) ==
    \/ o.kind \in {"Timeout", "ConnectionError"}
    \/ o.kind = "http" /\ o.status \in {429, 500, 502, 503, 504}

NoExc == [attempt |-> 0, cause |-> NoOutcome]

\* A call of fetch_with_retry begins, against an upstream that fails k times.
FetchStart(k) ==
    /\ failsBefore = k
    /\ fpc = "loop"
    /\ tries = 0
    /\ now = 0
    /\ elapsed = 0
    /\ expo_n = 0
    /\ exc = NoExc
    /\ allRetryable = TRUE
    /\ response = NoOutcome
    /\ ferror = NoExc

FetchInit == \E k \in 0..max_tries : FetchStart(k)

\* One pass of backoff's retry loop up to the end of the target call:
\* tries += 1, elapsed is read, then client.py 131-146 runs. An exception
\* that is no RequestException is not caught and leaves the call at once.
Attempt ==
    /\ fpc = "loop"
    /\ tries' = tries + 1
    /\ elapsed' = now
    /\ \E d \in Durations : now' = now + d
    /\ \E o \in (IF tries < failsBefore THEN FailureOutcomes ELSE SuccessOutcomes) :
        IF o.kind = "http" /\ ~RaisesForStatus(o.status)
        THEN /\ response' = o
             /\ fpc' = "returned"
             /\ UNCHANGED <<exc, allRetryable, ferror>>
        ELSE /\ exc' = [attempt |-> tries + 1, cause |-> o]
             /\ allRetryable' = (allRetryable /\ PolicyRetryable(o))
             /\ IF IsRequestException(o)
                THEN fpc' = "except" /\ UNCHANGED ferror
                ELSE fpc' = "failed" /\ ferror' = exc'
             /\ UNCHANGED response
    /\ UNCHANGED <<failsBefore, expo_n>>
    /\ UNCHANGED otherThanFetch

\* backoff's except branch: give up (re-raising the exception just caught),
\* or draw the next wait, call on_backoff (client.py 124-126) and sleep.
OnException ==
    /\ fpc = "except"
    /\ IF giveup(exc.cause) \/ max_tries_exceeded(tries) \/ max_time_exceeded(elapsed)
       THEN /\ ferror' = exc
            /\ fpc' = "failed"
            /\ UNCHANGED <<now, expo_n>>
       ELSE /\ \E j \in full_jitter(expo(expo_n)) :
                now' = now + next_wait(j, elapsed)
            /\ expo_n' = expo_next(expo_n)
            /\ fpc' = "loop"
            /\ UNCHANGED ferror
    /\ UNCHANGED <<failsBefore, tries, elapsed, exc, allRetryable, response>>
    /\ UNCHANGED otherThanFetch

FetchNext ==
    \/ Attempt
    \/ OnException

(***************************************************************************)
(* client.py, streams.py: get_records, the page loop of one partition      *)
(***************************************************************************)

Streams == {"ticker_metadata", "daily_prices"}

\* A partition context: None, a mapping without "ticker", or one with it.
NoContext == [isNone |-> TRUE, hasTicker |-> FALSE, ticker |-> ""]
EmptyContext == [isNone |-> FALSE, hasTicker |-> FALSE, ticker |-> ""]
TickerContext(tk) == [isNone |-> FALSE, hasTicker |-> TRUE, ticker |-> tk]
Contexts == {NoContext, EmptyContext, TickerContext("AAPL"), TickerContext("MSFT")}

\* A dict with string keys, as a function on its keys.
EmptyDict == [k \in {} |-> ""]
DictWith(d, k, v) == [x \in DOMAIN d \cup {k} |-> IF x = k THEN v ELSE d[x]]

MissingTickerOnlyNone(ctx) == ctx.isNone

\* streams.py 23, 50, 84: not context or "ticker" not in context. An empty
\* mapping is falsy too.
MissingTicker(ctx) == ctx.isNone \/ ~ctx.hasTicker

\* streams.py 49-53 and 82-88: get_url of the two streams.
NoUrl == [ok |-> FALSE, ticker |-> "", suffix |-> ""]
get_url(st, ctx) ==
    IF MissingTicker(ctx) THEN NoUrl
    ELSE IF st = "ticker_metadata"
    THEN [ok |-> TRUE, ticker |-> ctx.ticker, suffix |-> ""]
    ELSE [ok |-> TRUE, ticker |-> ctx.ticker, suffix |-> "/prices"]

\* client.py 73-87: TiingoStream.get_url_params, which ticker_metadata keeps.
TiingoStream_get_url_params(cfg, ctx, token) == EmptyDict

\* streams.py 119-128: DailyPricesStream.get_url_params.
DailyPricesStream_get_url_params(cfg, ctx, token) ==
    IF cfg.start_date # ""
    THEN DictWith(EmptyDict, "startDate", cfg.start_date)
    ELSE EmptyDict

get_url_params(st, cfg, ctx, token) ==
    IF st = "daily_prices"
    THEN DailyPricesStream_get_url_params(cfg, ctx, token)
    ELSE TiingoStream_get_url_params(cfg, ctx, token)

\* streams.py 47, 80: records_jsonpath of the two streams.
records_jsonpath(st) == IF st = "ticker_metadata" THEN "$" ELSE "$[*]"

\* The upstream: it has some pages; a request that names no page gets the
\* first one, the same request gets the same page, and every page but the
\* last carries the X-Next-Page header naming the next.
PageTokens == <<"1", "2", "3", "4", "5">>
PageOfToken(tok) == CHOOSE i \in 1..Len(PageTokens) : PageTokens[i] = tok
ServedPage(prm) ==
    IF "page" \in DOMAIN prm THEN PageOfToken(prm["page"]) ELSE 1
\* Bodies: an array of objects, one object, text that is no JSON, a JSON
\* scalar, and an array with an element that is no object. An upstream may
\* serve a sound array first and bodies of its shape from the second
\* response on.
BodyShapes == {"array", "object", "malformed", "scalar", "array_of_scalars"}
Upstreams ==
    [pages : 1..MaxPages, shape : BodyShapes, recs : 0..MaxRecs,
     goodFirst : BOOLEAN]
NoResponse == [page |-> 0, next |-> "", shape |-> "none", recs |-> 0]
Respond(up, prm, n) ==
    LET p == ServedPage(prm)
        sh == IF up.goodFirst /\ n = 1 THEN "array" ELSE up.shape
    IN [page |-> p,
        next |-> IF p < up.pages THEN PageTokens[p + 1] ELSE "",
        shape |-> sh,
        recs |-> IF sh = "array" THEN up.recs ELSE 0]

\* client.py 169-191: parse_response. The body is decoded and snake-cased
\* as a whole before anything is yielded; a body that does not decode, or
\* that is neither list nor dict (records_snake_case is then unbound), makes
\* the except branch log and re-raise. extract_jsonpath then yields, for
\* "$[*]", the elements of a list or a dict itself, and for "$" the decoded
\* value itself.
ParseFailsOnlyMalformed(r) == r.shape = "malformed"

\* client.py 179-191: json() raises on text that is no JSON, .items() raises
\* on an element that is no dict, and records_snake_case is unbound for a
\* body that is neither list nor dict.
ParseFails(r) == r.shape \in {"malformed", "scalar", "array_of_scalars"}
parse_response(st, r) ==
    IF r.shape = "array"
    THEN IF records_jsonpath(st) = "$[*]"
         THEN [i \in 1..r.recs |-> [page |-> r.page, idx |-> i, is |-> "object"]]
         ELSE << [page |-> r.page, idx |-> 0, is |-> "array"] >>
    ELSE << [page |-> r.page, idx |-> 1, is |-> "object"] >>

\* client.py 58-71, 161-163: the SDK's default paginator reads the
\* X-Next-Page header of the response.
get_next(r) == r.next

Configs == [start_date : {"", "2023-01-01"}, end_date : {"", "2023-12-31"}]
Bookmarks == {"", "2023-06-30"}

\* client.py 150: get_records begins for a stream, a configuration, a
\* bookmark, a context and an upstream.
RunStart(st, cfg, rkv, ctx, up) ==
    /\ stream = st
    /\ config = cfg
    /\ replicationKeyValue = rkv
    /\ context = ctx
    /\ upstream = up
    /\ rpc = "l153"
    /\ next_page_token = ""
    /\ url = NoUrl
    /\ params = EmptyDict
    /\ resp = NoResponse
    /\ pending = <<>>
    /\ iterations = 0
    /\ fetched = <<>>
    /\ emitted = <<>>
    /\ rerror = ""

RunInit ==
    \E st \in Streams, cfg \in Configs, rkv \in Bookmarks, ctx \in Contexts,
       up \in Upstreams : RunStart(st, cfg, rkv, ctx, up)

\* client.py 153-154: the top of the while loop builds the request; get_url
\* raises ValueError without a ticker context.
BuildRequest ==
    /\ rpc = "l153"
    /\ Len(fetched) < MaxFetches
    /\ iterations' = iterations + 1
    /\ IF MissingTicker(context)
       THEN /\ rerror' = "ValueError"
            /\ rpc' = "raised"
            /\ UNCHANGED <<url, params>>
       ELSE /\ url' = get_url(stream, context)
            /\ params' = get_url_params(stream, config, context, next_page_token)
            /\ rpc' = "l156"
            /\ UNCHANGED rerror
    /\ UNCHANGED <<stream, config, replicationKeyValue, context, upstream,
                   next_page_token, resp, pending, fetched, emitted>>
    /\ UNCHANGED otherThanRun

\* client.py 156: fetch_with_retry returns the response to the request, or
\* lets its exception out.
Fetch ==
    /\ rpc = "l156"
    /\ \/ /\ resp' = Respond(upstream, params, Len(fetched) + 1)
          /\ fetched' = Append(fetched, resp'.page)
          /\ rpc' = "l158"
          /\ UNCHANGED rerror
       \/ /\ rerror' = "RequestException"
          /\ rpc' = "raised"
          /\ UNCHANGED <<resp, fetched>>
    /\ UNCHANGED <<stream, config, replicationKeyValue, context, upstream,
                   next_page_token, url, params, pending, iterations, emitted>>
    /\ UNCHANGED otherThanRun

\* client.py 158, 178-191: parse_response runs up to its first yield.
Parse ==
    /\ rpc = "l158"
    /\ IF ParseFails(resp)
       THEN /\ rerror' = "ParseException"
            /\ rpc' = "raised"
            /\ UNCHANGED pending
       ELSE /\ pending' = parse_response(stream, resp)
            /\ rpc' = "l159"
            /\ UNCHANGED rerror
    /\ UNCHANGED <<stream, config, replicationKeyValue, context, upstream,
                   next_page_token, url, params, resp, iterations, fetched, emitted>>
    /\ UNCHANGED otherThanRun

YieldLastFirst ==
    /\ rpc = "l159"
    /\ pending # <<>>
    /\ emitted' = Append(emitted, pending[Len(pending)])
    /\ pending' = SubSeq(pending, 1, Len(pending) - 1)
    /\ UNCHANGED <<stream, config, replicationKeyValue, context, upstream, rpc,
                   next_page_token, url, params, resp, iterations, fetched, rerror>>
    /\ UNCHANGED otherThanRun

\* client.py 158-159: yield the next record of the page.
Yield ==
    /\ rpc = "l159"
    /\ pending # <<>>
    /\ emitted' = Append(emitted, Head(pending))
    /\ pending' = Tail(pending)
    /\ UNCHANGED <<stream, config, replicationKeyValue, context, upstream, rpc,
                   next_page_token, url, params, resp, iterations, fetched, rerror>>
    /\ UNCHANGED otherThanRun

\* Fault variant of Paginate: the loop goes on whatever get_next gives.
PaginateIgnoringAbsence ==
    /\ rpc = "l159"
    /\ pending = <<>>
    /\ next_page_token' = get_next(resp)
    /\ rpc' = "l153"
    /\ UNCHANGED <<stream, config, replicationKeyValue, context, upstream, url,
                   params, resp, pending, iterations, fetched, emitted, rerror>>
    /\ UNCHANGED otherThanRun

\* client.py 161-167: a new paginator each pass; its get_next gives the
\* token, and no token ends the loop.
Paginate ==
    /\ rpc = "l159"
    /\ pending = <<>>
    /\ next_page_token' = get_next(resp)
    /\ rpc' = IF next_page_token' = "" THEN "done" ELSE "l153"
    /\ UNCHANGED <<stream, config, replicationKeyValue, context, upstream, url,
                   params, resp, pending, iterations, fetched, emitted, rerror>>
    /\ UNCHANGED otherThanRun

RunNext ==
    \/ BuildRequest
    \/ Fetch
    \/ Parse
    \/ Yield
    \/ Paginate

(***************************************************************************)
(* streams.py, client.py: post_process                                     *)
(***************************************************************************)

\* A field value: a string, or a number with its decimal text.
Str(t) == [type |-> "str", text |-> t]
Num(t) == [type |-> "num", text |-> t]
Values == {Str("AAPL"), Str("MSFT"), Str("1"), Num("1")}

\* str(value), as client.py 195 takes it.
str(v) == v.text

\* A Python dict: its items in insertion order, as <<key, value>> pairs with
\* distinct keys.
Keys(d) == {d[i][1] : i \in 1..Len(d)}
HasKey(d, k) == k \in Keys(d)
Get(d, k) == d[CHOOSE i \in 1..Len(d) : d[i][1] = k][2]
\* d[k] = v: a present key keeps its place and takes the value, a new key
\* goes to the end.
Set(d, k, v) ==
    IF HasKey(d, k)
    THEN [i \in 1..Len(d) |-> IF d[i][1] = k THEN <<k, v>> ELSE d[i]]
    ELSE Append(d, <<k, v>>)

RawKeys == {"ticker", "date", "adjClose", "adj_close", "startDate"}
RECURSIVE Dicts(_)
Dicts(n) ==
    IF n = 0 THEN {<<>>}
    ELSE LET shorter == Dicts(n - 1)
         IN shorter \cup
            {Append(d, <<k, v>>) :
                d \in {e \in shorter : Len(e) = n - 1},
                k \in RawKeys, v \in Values}

\* streams.py 35-37, 64-70, 107-117: _get_field_mapping of each class.
TickerMetadataMapping ==
    [k \in {"startDate", "endDate", "exchangeCode"} |->
        CASE k = "startDate" -> "start_date"
          [] k = "endDate" -> "end_date"
          [] k = "exchangeCode" -> "exchange_code"]
DailyPricesMapping ==
    [k \in {"adjClose", "adjHigh", "adjLow", "adjOpen", "adjVolume", "divCash",
            "splitFactor"} |->
        CASE k = "adjClose" -> "adj_close"
          [] k = "adjHigh" -> "adj_high"
          [] k = "adjLow" -> "adj_low"
          [] k = "adjOpen" -> "adj_open"
          [] k = "adjVolume" -> "adj_volume"
          [] k = "divCash" -> "div_cash"
          [] k = "splitFactor" -> "split_factor"]
get_field_mapping(st) ==
    IF st = "ticker_metadata" THEN TickerMetadataMapping
    ELSE IF st = "daily_prices" THEN DailyPricesMapping
    ELSE EmptyDict

\* streams.py 30: self._get_field_mapping().get(key, key)
MappedKey(st, k) ==
    IF k \in DOMAIN get_field_mapping(st) THEN get_field_mapping(st)[k] ELSE k

\* client.py 25-26: the class attributes of TiingoStream.
add_ticker == TRUE
add_surrogate_key == FALSE

RECURSIVE JoinValues(_)
JoinValues(d) ==
    IF d = <<>> THEN ""
    ELSE IF Len(d) = 1 THEN str(d[1][2])
    ELSE str(d[1][2]) \o "|" \o JoinValues(Tail(d))

\* client.py 193-197: _generate_surrogate_key; uuid5 of the joined string,
\* kept as that string under its namespace.
generate_surrogate_key(d) == Str("uuid5:dns:" \o JoinValues(d))

\* Fault variant of WithTicker: a ticker the row already has is kept.
WithTickerIfAbsent(d, ctx) ==
    IF HasKey(d, "ticker") THEN d ELSE Append(d, <<"ticker", Str(ctx.ticker)>>)

\* streams.py 26, client.py 217: row["ticker"] = context["ticker"]
WithTicker(d, ctx) == Set(d, "ticker", Str(ctx.ticker))

\* streams.py 28-33: the loop that builds transformed from row.items().
RECURSIVE Transformed(_, _, _)
Transformed(st, d, acc) ==
    IF d = <<>> THEN acc
    ELSE Transformed(st, Tail(d), Set(acc, MappedKey(st, d[1][1]), d[1][2]))

\* streams.py 21-33: TickerPartitionStream.post_process, the value returned.
TickerPartitionStream_post_process(st, d, ctx) ==
    Transformed(st, WithTicker(d, ctx), <<>>)

\* client.py 199-220: TiingoStream.post_process, the value returned.
TiingoStream_post_process(d, ctx) ==
    LET r1 == IF add_ticker THEN WithTicker(d, ctx) ELSE d
    IN IF add_surrogate_key
       THEN Set(r1, "surrogate_key", generate_surrogate_key(r1))
       ELSE r1

\* streams.py 55-62, 90-105: the properties each schema declares.
TickerMetadataSchema ==
    {"ticker", "name", "description", "start_date", "end_date", "exchange_code"}
DailyPricesSchema ==
    {"ticker", "date", "close", "high", "low", "open", "volume", "adj_close",
     "adj_high", "adj_low", "adj_open", "adj_volume", "div_cash", "split_factor"}
schema(st) ==
    IF st = "ticker_metadata" THEN TickerMetadataSchema ELSE DailyPricesSchema

XStreams == {"TiingoStream", "ticker_metadata", "daily_prices"}

Rows == {d \in Dicts(MaxRowLen) : Cardinality(Keys(d)) = Len(d)}

\* post_process is about to be called on a row with a context.
XformStart(st, ctx, d) ==
    /\ xstream = st
    /\ xcontext = ctx
    /\ raw = d
    /\ row = d
    /\ out = <<>>
    /\ xpc = "call"

XformInit ==
    \E st \in XStreams, ctx \in Contexts, d \in Rows : XformStart(st, ctx, d)

\* streams.py 21-33 and client.py 199-220: one call of post_process. Both
\* write the ticker (and client.py the surrogate key) into the row they were
\* handed before they return.
PostProcess ==
    /\ xpc = "call"
    /\ IF MissingTicker(xcontext)
       THEN /\ xpc' = "raised"
            /\ UNCHANGED <<row, out>>
       ELSE /\ xpc' = "returned"
            /\ IF xstream = "TiingoStream"
               THEN /\ out' = TiingoStream_post_process(row, xcontext)
                    /\ row' = out'
               ELSE /\ out' = TickerPartitionStream_post_process(xstream, row, xcontext)
                    /\ row' = WithTicker(row, xcontext)
    /\ UNCHANGED <<xstream, xcontext, raw>>
    /\ UNCHANGED otherThanXform

XformNext ==
    \/ PostProcess

(***************************************************************************)
(* streams.py, client.py: the sync of one stream, partition by partition   *)
(***************************************************************************)

\* The settings whose list elements are all strings.
SyncConfigs ==
    {cfg \in TickersConfigs :
        cfg.kind = "list" => \A i \in 1..Len(cfg.items) : cfg.items[i].isStr}

\* streams.py 16-19: [{"ticker": t["ticker"]} for t in get_cached_tickers()]
PartitionsOf(tickers) == [i \in 1..Len(tickers) |-> TickerContext(tickers[i].ticker.v)]

\* The contexts the SDK runs get_records for: the partitions in their order,
\* or a single run without context when there are none.
ContextList == IF partitions = <<>> THEN <<NoContext>> ELSE partitions

\* No sync under way.
SyncIdle ==
    /\ partitions = <<>>
    /\ partIdx = 0
    /\ startsAt = <<>>
    /\ syncpc = "start"

\* get_records of no partition has begun yet.
RunBefore(st, cfg, up) ==
    /\ stream = st
    /\ config = cfg
    /\ replicationKeyValue = ""
    /\ context = NoContext
    /\ upstream = up
    /\ rpc = "done"
    /\ next_page_token = ""
    /\ url = NoUrl
    /\ params = EmptyDict
    /\ resp = NoResponse
    /\ pending = <<>>
    /\ iterations = 0
    /\ fetched = <<>>
    /\ emitted = <<>>
    /\ rerror = ""

SyncInit ==
    /\ \E cfg \in SyncConfigs : CacheStart(cfg)
    /\ \E st \in Streams,
          up \in {u \in Upstreams : u.shape \in {"array", "object"} /\ ~u.goodFirst} :
            RunBefore(st, [start_date |-> "", end_date |-> ""], up)
    /\ SyncIdle

\* streams.py 16-19 with tap.py 66-91: the partitions property, read once
\* when the sync begins; the call of get_cached_tickers fills the cache or
\* raises.
Partitions ==
    /\ syncpc = "start"
    /\ IF IsSentinel(tickers_config)
       THEN /\ cached_tickers' = Some(DefaultTickers)
            /\ computations' = computations + 1
            /\ partitions' = PartitionsOf(DefaultTickers)
            /\ syncpc' = "loop"
       ELSE IF IsList(tickers_config)
       THEN /\ cached_tickers' = Some(TickersFromList(tickers_config.items))
            /\ computations' = computations + 1
            /\ partitions' = PartitionsOf(TickersFromList(tickers_config.items))
            /\ syncpc' = "loop"
       ELSE /\ syncpc' = "raised"
            /\ UNCHANGED <<cached_tickers, computations, partitions>>
    /\ UNCHANGED <<tickers_config, ticker_lock, pc, ret, retPath, warmAtCall>>
    /\ UNCHANGED <<partIdx, startsAt>>
    /\ UNCHANGED <<fetchVars, runVars, xformVars, keyVars, logVars, snakeVars>>

\* client.py 148-151: get_records begins for the next context, once the
\* generator of the one before is exhausted.
StartPartition ==
    /\ syncpc = "loop"
    /\ rpc = "done"
    /\ partIdx < Len(ContextList)
    /\ partIdx' = partIdx + 1
    /\ startsAt' = Append(startsAt, Len(emitted))
    /\ context' = ContextList[partIdx + 1]
    /\ rpc' = "l153"
    /\ next_page_token' = ""
    /\ url' = NoUrl
    /\ params' = EmptyDict
    /\ resp' = NoResponse
    /\ pending' = <<>>
    /\ iterations' = 0
    /\ fetched' = <<>>
    /\ rerror' = ""
    /\ UNCHANGED <<stream, config, replicationKeyValue, upstream, emitted>>
    /\ UNCHANGED <<partitions, syncpc>>
    /\ UNCHANGED <<cacheVars, fetchVars, xformVars, keyVars, logVars, snakeVars>>

\* The sync ends when the last generator is exhausted, or with the
\* exception a generator let out.
EndSync ==
    /\ syncpc = "loop"
    /\ \/ rpc = "raised" /\ syncpc' = "raised"
       \/ rpc = "done" /\ partIdx = Len(ContextList) /\ syncpc' = "end"
    /\ UNCHANGED <<partitions, partIdx, startsAt>>
    /\ UNCHANGED <<cacheVars, fetchVars, runVars, xformVars, keyVars, logVars, snakeVars>>

SyncNext ==
    \/ Partitions
    \/ StartPartition
    \/ BuildRequest
    \/ Fetch
    \/ Parse
    \/ Yield
    \/ Paginate
    \/ EndSync

(***************************************************************************)
(* client.py: _generate_surrogate_key on two records                       *)
(***************************************************************************)

\* Field values: strings, one holding the delimiter, and a number whose
\* text is that of a string.
KeyValues == {Str("a"), Str("a|a"), Str("1"), Num("1")}
KeyFields == <<"date", "close", "volume", "open">>

\* The records with the first n of the fields, in that order.
KeyRows(n) ==
    {[i \in 1..n |-> <<KeyFields[i], f[i]>>] : f \in [1..n -> KeyValues]}

\* Two records with the same keys in the same order are about to get their
\* surrogate keys.
KeyStart(a, b) ==
    /\ dataA = a
    /\ dataB = b
    /\ keyA = Str("")
    /\ keyB = Str("")
    /\ kpc = "call"

KeyIdle == KeyStart(<<>>, <<>>)

KeyInit ==
    \E n \in 0..MaxKeyFields : \E a \in KeyRows(n), b \in KeyRows(n) : KeyStart(a, b)

\* client.py 193-197: _generate_surrogate_key on each of the two records.
GenerateKeys ==
    /\ kpc = "call"
    /\ keyA' = generate_surrogate_key(dataA)
    /\ keyB' = generate_surrogate_key(dataB)
    /\ kpc' = "returned"
    /\ UNCHANGED <<dataA, dataB>>
    /\ UNCHANGED <<cacheVars, fetchVars, runVars, xformVars, syncVars, logVars, snakeVars>>

KeyNext ==
    \/ GenerateKeys

(***************************************************************************)
(* client.py: the messages of fetch_with_retry and parse_response          *)
(***************************************************************************)

\* A text is a sequence of pieces; the name of a query parameter with its
\* "=" is one piece, the value after it the next, "&" and "?" pieces of
\* their own.
Secret == "SECRET"
BaseUrl == <<"https://api.tiingo.com/tiingo/daily/AAPL/prices">>
LogUrls ==
    {BaseUrl,
     BaseUrl \o <<"?", "api_key=", Secret>>,
     BaseUrl \o <<"?", "api_key=", Secret, "&", "format=", "json">>}
LogParams ==
    {<<>>,
     << <<"startDate", "2023-01-01">> >>,
     << <<"api_key", Secret>> >>,
     << <<"startDate", "2023-01-01">>, <<"api_key", Secret>> >>}

\* client.py 101-103: re.sub(r"(api_key=)([^\s&]+)", r"\1<REDACTED>", msg):
\* the run of text after "api_key=", up to white space or "&", is replaced.
RECURSIVE redact_api_key(_)
redact_api_key(msg) ==
    IF msg = <<>> THEN <<>>
    ELSE IF msg[1] = "api_key=" /\ Len(msg) >= 2 /\ msg[2] \notin {"&", " ", "?"}
    THEN <<"api_key=", "<REDACTED>">> \o redact_api_key(SubSeq(msg, 3, Len(msg)))
    ELSE <<msg[1]>> \o redact_api_key(Tail(msg))

\* client.py 132: "api" in k.lower(), over the parameter names here.
ContainsApi(k) == k \in {"api_key"}

\* client.py 132: the params as they are logged.
log_params(prm) ==
    [i \in 1..Len(prm) |->
        IF ContainsApi(prm[i][1]) THEN <<prm[i][1], "<REDACTED>">> ELSE prm[i]]

\* The text of a dict of params inside a message: 'name': 'value' each.
RECURSIVE ParamsText(_)
ParamsText(prm) ==
    IF prm = <<>> THEN <<>>
    ELSE <<"'" \o prm[1][1] \o "': ", prm[1][2]>> \o ParamsText(Tail(prm))

\* The query string requests builds from the params: name=value, joined
\* by "&".
RECURSIVE QueryText(_)
QueryText(prm) ==
    IF prm = <<>> THEN <<>>
    ELSE <<prm[1][1] \o "=", prm[1][2]>>
            \o (IF Len(prm) > 1 THEN <<"&">> ELSE <<>>) \o QueryText(Tail(prm))

\* The url requests sends: the url with the params added to its query.
RequestUrl(u, prm) ==
    IF prm = <<>> THEN u
    ELSE u \o <<(IF Len(u) > 1 THEN "&" ELSE "?")>> \o QueryText(prm)

\* client.py 133: the message logged before each attempt.
RequestMessage(u, prm) ==
    <<"Stream daily_prices: Requesting ">> \o redact_api_key(u)
        \o <<" with params: ">> \o ParamsText(log_params(prm))

\* client.py 145: the message logged after a response without error status.
ResponseMessage == <<"Stream daily_prices: Response 200 received">>

\* client.py 142 and 135-141: the text of the exception an attempt raises.
\* raise_for_status names the status and the url of the response; a
\* connection error names the url it could not reach; a timeout does not.
LogOutcomes == {"200", "404", "503", "ConnectionError", "Timeout"}
ExceptionText(o, u, prm) ==
    CASE o = "404" -> <<"404 Client Error: Not Found for url: ">> \o RequestUrl(u, prm)
      [] o = "503" -> <<"503 Server Error: Service Unavailable for url: ">> \o RequestUrl(u, prm)
      [] o = "ConnectionError" -> <<"Max retries exceeded with url: ">> \o RequestUrl(u, prm)
      [] OTHER -> <<"Read timed out. (read timeout=300)">>

\* client.py 124-126: the message on_backoff logs, with the exception in it.
BackoffMessage(e) ==
    <<"API request failed, retrying (attempt): ">> \o e

\* client.py 179, 182: the text of the exceptions the decoding raises.
ParseExceptionTexts ==
    {<<"Expecting value: line 1 column 1 (char 0)">>,
     <<"'int' object has no attribute 'items'">>}

\* client.py 189-190: the message logged for a parse error.
ParseErrorMessage(e) == redact_api_key(<<"Error parsing response: ">> \o e)

\* fetch_with_retry is about to be called with a url and params.
LogStart(u, prm) ==
    /\ lurl = u
    /\ lparams = prm
    /\ ltries = 0
    /\ lexc = [retry |-> FALSE, text |-> <<>>]
    /\ logs = <<>>
    /\ lerror = <<>>
    /\ lpc = "l131"

LogIdle == LogStart(BaseUrl, <<>>)

LogInit == \E u \in LogUrls, prm \in LogParams : LogStart(u, prm)

\* client.py 128-146: one attempt: the request is logged, sent, and its
\* response logged and returned or its exception raised into backoff.
LogAttempt ==
    /\ lpc = "l131"
    /\ ltries' = ltries + 1
    /\ \E o \in LogOutcomes :
        IF o = "200"
        THEN /\ logs' = logs \o <<RequestMessage(lurl, lparams), ResponseMessage>>
             /\ lpc' = "l178"
             /\ UNCHANGED lexc
        ELSE /\ logs' = Append(logs, RequestMessage(lurl, lparams))
             /\ lexc' = [retry |-> o # "404", text |-> ExceptionText(o, lurl, lparams)]
             /\ lpc' = "except"
    /\ UNCHANGED <<lurl, lparams, lerror>>
    /\ UNCHANGED <<cacheVars, fetchVars, runVars, xformVars, syncVars, keyVars, snakeVars>>

\* client.py 111-127: backoff retries: on_backoff logs the warning.
LogBackoff ==
    /\ lpc = "except"
    /\ lexc.retry
    /\ ltries < max_tries
    /\ ltries < MaxLogAttempts
    /\ logs' = Append(logs, BackoffMessage(lexc.text))
    /\ lpc' = "l131"
    /\ UNCHANGED <<lurl, lparams, ltries, lexc, lerror>>
    /\ UNCHANGED <<cacheVars, fetchVars, runVars, xformVars, syncVars, keyVars, snakeVars>>

\* client.py 111-127: backoff gives up, on giveup(e), on the last try or on
\* a spent time budget, and lets the exception out.
LogGiveUp ==
    /\ lpc = "except"
    /\ lerror' = lexc.text
    /\ lpc' = "raised"
    /\ UNCHANGED <<lurl, lparams, ltries, lexc, logs>>
    /\ UNCHANGED <<cacheVars, fetchVars, runVars, xformVars, syncVars, keyVars, snakeVars>>

\* client.py 178-191: parse_response of the response returned: it yields,
\* or logs the parse error and raises the exception as it was.
LogParse ==
    /\ lpc = "l178"
    /\ \/ /\ lpc' = "returned"
          /\ UNCHANGED <<logs, lerror>>
       \/ \E e \in ParseExceptionTexts :
            /\ logs' = Append(logs, ParseErrorMessage(e))
            /\ lerror' = e
            /\ lpc' = "raised"
    /\ UNCHANGED <<lurl, lparams, ltries, lexc>>
    /\ UNCHANGED <<cacheVars, fetchVars, runVars, xformVars, syncVars, keyVars, snakeVars>>

LogNext ==
    \/ LogAttempt
    \/ LogBackoff
    \/ LogGiveUp
    \/ LogParse

(***************************************************************************)
(* client.py: _to_snake_case                                               *)
(***************************************************************************)

\* A string is the sequence of its characters.
LowerLetters ==
    <<"a", "b", "c", "d", "e", "f", "g", "h", "i", "j", "k", "l", "m", "n",
      "o", "p", "q", "r", "s", "t", "u", "v", "w", "x", "y", "z">>
UpperLetters ==
    <<"A", "B", "C", "D", "E", "F", "G", "H", "I", "J", "K", "L", "M", "N",
      "O", "P", "Q", "R", "S", "T", "U", "V", "W", "X", "Y", "Z">>
Digits == {"0", "1", "2", "3", "4", "5", "6", "7", "8", "9"}
IsLower(c) == \E i \in 1..Len(LowerLetters) : LowerLetters[i] = c
IsUpper(c) == \E i \in 1..Len(UpperLetters) : UpperLetters[i] = c
IsDigit(c) == c \in Digits

\* str.lower(), character by character.
LowerChar(c) ==
    IF IsUpper(c)
    THEN LowerLetters[CHOOSE i \in 1..Len(UpperLetters) : UpperLetters[i] = c]
    ELSE c
lower(str1) == [i \in 1..Len(str1) |-> LowerChar(str1[i])]

\* How many lower-case letters follow one another from position i on.
RECURSIVE LowerRun(_, _)
LowerRun(str1, i) ==
    IF i <= Len(str1) /\ IsLower(str1[i]) THEN 1 + LowerRun(str1, i + 1) ELSE 0

\* client.py 108: re.sub("(.)([A-Z][a-z]+)", r"\1_\2", camel_str): leftmost
\* matches that do not overlap: any character, an upper-case letter and the
\* whole run of lower-case letters after it; the scan goes on behind the run.
RECURSIVE sub_word(_)
sub_word(str1) ==
    IF Len(str1) < 3 THEN str1
    ELSE IF IsUpper(str1[2]) /\ IsLower(str1[3])
    THEN LET k == LowerRun(str1, 3)
         IN <<str1[1], "_">> \o SubSeq(str1, 2, 2 + k)
                \o sub_word(SubSeq(str1, 3 + k, Len(str1)))
    ELSE <<str1[1]>> \o sub_word(Tail(str1))

\* client.py 109: re.sub("([a-z0-9])([A-Z])", r"\1_\2", s1)
RECURSIVE sub_hump(_)
sub_hump(str1) ==
    IF Len(str1) < 2 THEN str1
    ELSE IF (IsLower(str1[1]) \/ IsDigit(str1[1])) /\ IsUpper(str1[2])
    THEN <<str1[1], "_", str1[2]>> \o sub_hump(SubSeq(str1, 3, Len(str1)))
    ELSE <<str1[1]>> \o sub_hump(Tail(str1))

to_snake_case_keeping_case(str1) == sub_hump(sub_word(str1))

\* client.py 105-109: _to_snake_case
to_snake_case(str1) == lower(sub_hump(sub_word(str1)))

\* The keys tried: every string up to MaxKeyLen over a few characters of
\* each kind, and the camelCase keys the upstream sends.
KeyChars == {"a", "c", "A", "C", "1", "_"}
UpstreamKeys ==
    {<<"a", "d", "j", "C", "l", "o", "s", "e">>,
     <<"s", "p", "l", "i", "t", "F", "a", "c", "t", "o", "r">>,
     <<"d", "i", "v", "C", "a", "s", "h">>,
     <<"e", "x", "c", "h", "a", "n", "g", "e", "C", "o", "d", "e">>,
     <<"s", "t", "a", "r", "t", "D", "a", "t", "e">>}
KeyStrings == UNION {[1..n -> KeyChars] : n \in 0..MaxKeyLen} \cup UpstreamKeys

\* _to_snake_case is about to be called on a key.
SnakeStart(k) ==
    /\ camel_str = k
    /\ snake = <<>>
    /\ again = <<>>
    /\ spc = "call"

SnakeIdle == SnakeStart(<<>>)

SnakeInit == \E k \in KeyStrings : SnakeStart(k)

\* client.py 105-109: _to_snake_case on the key.
ToSnakeCase ==
    /\ spc = "call"
    /\ snake' = to_snake_case(camel_str)
    /\ spc' = "once"
    /\ UNCHANGED <<camel_str, again>>
    /\ UNCHANGED <<cacheVars, fetchVars, runVars, xformVars, syncVars, keyVars, logVars>>

\* client.py 105-109: _to_snake_case on what it returned.
ToSnakeCaseAgain ==
    /\ spc = "once"
    /\ again' = to_snake_case(snake)
    /\ spc' = "twice"
    /\ UNCHANGED <<camel_str, snake>>
    /\ UNCHANGED <<cacheVars, fetchVars, runVars, xformVars, syncVars, keyVars, logVars>>

SnakeNext ==
    \/ ToSnakeCase
    \/ ToSnakeCaseAgain

(***************************************************************************)
(* The specifications: each runs one part, the others stand still.         *)
(***************************************************************************)
CacheIdle == CacheStart(StrConfig("*"))
FetchIdle == FetchStart(0)
RunIdle ==
    RunStart("daily_prices", [start_date |-> "", end_date |-> ""], "",
             TickerContext("AAPL"), [pages |-> 1, shape |-> "array", recs |-> 0, goodFirst |-> FALSE])

XformIdle == XformStart("daily_prices", TickerContext("AAPL"), <<>>)

InitCache == CacheInit /\ FetchIdle /\ RunIdle /\ XformIdle /\ SyncIdle /\ KeyIdle /\ LogIdle /\ SnakeIdle
SpecCache == InitCache /\ [][CacheNext]_vars

\* get_cached_tickers under a scheduler that lets every thread inside the
\* call take its next step, and gives the lock, freed again and again, to
\* each thread waiting for it; the settings are the sentinel and the two
\* that are neither sentinel nor list.
InsideCall(t) ==
    \/ FirstCheck(t)
    \/ SecondCheck(t)
    \/ ExitReturn(t)
    \/ Compute(t)
    \/ ExitWith(t)
    \/ ExitRaise(t)
    \/ FinalReturn(t)
InitCacheFair ==
    (\E cfg \in {StrConfig("*"), StrConfig("AAPL"), OtherConfig} : CacheStart(cfg)) /\ FetchIdle /\ RunIdle /\ XformIdle /\ SyncIdle /\ KeyIdle /\ LogIdle /\ SnakeIdle
SpecCacheFair ==
    /\ InitCacheFair
    /\ [][CacheNext]_vars
    /\ \A t \in Threads : WF_vars(InsideCall(t)) /\ SF_vars(Acquire(t))

InitFetch == FetchInit /\ CacheIdle /\ RunIdle /\ XformIdle /\ SyncIdle /\ KeyIdle /\ LogIdle /\ SnakeIdle
SpecFetch == InitFetch /\ [][FetchNext]_vars

InitRun == RunInit /\ CacheIdle /\ FetchIdle /\ XformIdle /\ SyncIdle /\ KeyIdle /\ LogIdle /\ SnakeIdle
SpecRun == InitRun /\ [][RunNext]_vars

InitXform == XformInit /\ CacheIdle /\ FetchIdle /\ RunIdle /\ SyncIdle /\ KeyIdle /\ LogIdle /\ SnakeIdle
SpecXform == InitXform /\ [][XformNext]_vars

\* One partition context handed both to get_records and to post_process of
\* the same stream: the two places that need the ticker of the context.
InitCtx ==
    /\ \E st \in Streams, ctx \in Contexts, up \in Upstreams,
          d \in {r \in Rows : Len(r) <= 1} :
            /\ RunStart(st, [start_date |-> "", end_date |-> ""], "", ctx, up)
            /\ XformStart(st, ctx, d)
    /\ CacheIdle
    /\ FetchIdle
    /\ SyncIdle
    /\ KeyIdle
    /\ LogIdle
    /\ SnakeIdle
CtxNext ==
    \/ BuildRequest
    \/ Fetch
    \/ Parse
    \/ Yield
    \/ Paginate
    \/ PostProcess
SpecCtx == InitCtx /\ [][CtxNext]_vars

InitKey == KeyInit /\ CacheIdle /\ FetchIdle /\ RunIdle /\ XformIdle /\ SyncIdle /\ LogIdle /\ SnakeIdle
SpecKey == InitKey /\ [][KeyNext]_vars

InitLog == LogInit /\ CacheIdle /\ FetchIdle /\ RunIdle /\ XformIdle /\ SyncIdle /\ KeyIdle /\ SnakeIdle
SpecLog == InitLog /\ [][LogNext]_vars

InitSnake == SnakeInit /\ CacheIdle /\ FetchIdle /\ RunIdle /\ XformIdle /\ SyncIdle /\ KeyIdle /\ LogIdle
SpecSnake == InitSnake /\ [][SnakeNext]_vars

InitSync == SyncInit /\ FetchIdle /\ XformIdle /\ KeyIdle /\ LogIdle /\ SnakeIdle
SpecSync == InitSync /\ [][SyncNext]_vars

(***************************************************************************)
(* Claims about get_cached_tickers (SpecCache).                            *)
(***************************************************************************)

Returned(t) == retPath[t] \in {"fast", "locked", "computed"}

\* C1: however many threads call get_cached_tickers while the cache is unset
\* and however they interleave, _cached_tickers is assigned at most once,
\* exactly once as soon as any call has returned, every call that returned
\* holds the one cached list, and on a usable configuration no call fails.
C1_ComputedOnce ==
    /\ computations <= 1
    /\ \A t \in Threads :
        /\ Returned(t) => /\ computations = 1
                          /\ ~ret[t].isNone
                          /\ ret[t] = cached_tickers
        /\ ValidConfig(tickers_config) => retPath[t] # "raised"
    /\ \A t, u \in Threads : Returned(t) /\ Returned(u) => ret[t] = ret[u]

\* C1 witness: every thread called while the cache was unset, all of them
\* got past the unlocked check together, and all have returned: one computed,
\* the others found the cache set under the lock.
C1_Witness ==
    /\ \A t \in Threads :
        ~warmAtCall[t] /\ pc[t] = "idle" /\ retPath[t] \in {"locked", "computed"}
    /\ Cardinality({t \in Threads : retPath[t] = "locked"}) = NumThreads - 1
    /\ computations = 1

\* C2: a call that begins once the cache is set never reaches the lock (it
\* stays on lines 68-69), returns the cached value, also while another thread
\* holds _ticker_lock, and no step changes a cache that is set.
C2_WarmState ==
    \A t \in Threads :
        warmAtCall[t] =>
            /\ pc[t] \in {"l68", "idle"}
            /\ ticker_lock # t
            /\ retPath[t] \in {"none", "fast"}
            /\ retPath[t] = "fast" => ret[t] = cached_tickers

C2_WarmStep ==
    /\ ~cached_tickers.isNone => cached_tickers' = cached_tickers
    /\ \A t \in Threads :
        warmAtCall[t] /\ pc[t] = "l68" /\ pc'[t] # "l68" =>
            /\ ticker_lock' = ticker_lock
            /\ ret'[t] = cached_tickers

\* C2, both parts: the state of a call begun warm, and the steps it takes.
C2_WarmNoLock == [](C2_WarmState) /\ [][C2_WarmStep]_vars

\* C2 witness: a call that began warm has returned on the fast path while
\* another thread holds the lock.
C2_Witness ==
    \E t \in Threads :
        /\ warmAtCall[t] /\ retPath[t] = "fast" /\ pc[t] = "idle"
        /\ ticker_lock \notin {0, t}

(***************************************************************************)
(* Claims about fetch_with_retry (SpecFetch).                              *)
(***************************************************************************)

\* C3: a fetch whose first attempt ends in an HTTP error status outside
\* {429, 500, 502, 503, 504} makes that one attempt and fails with its
\* error: no second attempt, no wait, no response.
C3_OneAttemptOnOtherStatus ==
    (/\ exc.attempt = 1
     /\ exc.cause.kind = "http"
     /\ RaisesForStatus(exc.cause.status)
     /\ exc.cause.status \notin {429, 500, 502, 503, 504})
        => /\ tries = 1
           /\ fpc \in {"except", "failed"}
           /\ now - elapsed \in Durations
           /\ response = NoOutcome
           /\ fpc = "failed" => ferror = exc

\* C3 witness: the first attempt got a 404 and the fetch has failed with it
\* after that one attempt.
C3_Witness ==
    /\ fpc = "failed"
    /\ tries = 1
    /\ ferror = [attempt |-> 1, cause |-> HttpOutcome(404)]

\* C4 as stated: k < 12 retryable failures followed by a 200 always end in
\* the 200 being returned after exactly k + 1 attempts.
C4_AsStated ==
    /\ fpc = "returned" =>
        /\ tries = failsBefore + 1
        /\ response = HttpOutcome(200)
    /\ failsBefore < 12 /\ allRetryable => fpc # "failed"

\* C4 (amended): a fetch retries after every transport failure and every
\* response with a status in {429, 500, 502, 503, 504}, and returns the
\* first successful response after exactly k + 1 attempts, unless one of the
\* k failed attempts began 1800 seconds or more after the fetch began: then
\* the fetch fails at that attempt.
C4_RetryUntilSuccessOrBudget ==
    /\ fpc = "returned" =>
        /\ tries = failsBefore + 1
        /\ response = HttpOutcome(200)
        /\ allRetryable
    /\ fpc = "failed" /\ failsBefore < 12 /\ allRetryable =>
        /\ elapsed >= 1800
        /\ ferror.attempt = tries
    /\ fpc = "loop" /\ tries > 0 => allRetryable /\ exc.attempt = tries

\* C4 witness: three 503 responses, then the 200 returned by the fourth
\* attempt.
C4_Witness ==
    /\ fpc = "returned"
    /\ failsBefore = 3
    /\ tries = 4
    /\ exc = [attempt |-> 3, cause |-> HttpOutcome(503)]
    /\ response = HttpOutcome(200)

\* C5 as stated: at most 12 attempts; when every attempt fails retryably the
\* fetch fails after the 12th attempt, with the last attempt's error.
C5_AsStated ==
    /\ tries <= 12
    /\ fpc = "failed" => ferror = exc /\ ferror.attempt = tries
    /\ fpc = "failed" /\ allRetryable => tries = 12

\* C5 (amended): a fetch makes at most 12 attempts; when every attempt fails
\* retryably it fails after the 12th attempt, or earlier at the first failed
\* attempt that began 1800 seconds or more after the fetch began; the error
\* it fails with is that of its last attempt.
C5_BoundedAttemptsLastCause ==
    /\ tries <= 12
    /\ fpc = "failed" => ferror = exc /\ ferror.attempt = tries
    /\ fpc = "failed" /\ allRetryable => tries = 12 \/ elapsed >= 1800

\* C5 witness: twelve retryable failures, the fetch failed with the twelfth.
C5_Witness ==
    /\ fpc = "failed"
    /\ allRetryable
    /\ tries = 12
    /\ elapsed < 1800
    /\ ferror.attempt = 12

(***************************************************************************)
(* Claims about get_records and the request it builds (SpecRun).           *)
(***************************************************************************)

RequestBuilt == url.ok

\* C6: for daily_prices, the startDate of a partition's request is the
\* partition's recorded replicationKeyValue if there is one, else the
\* configured start_date, else no startDate is sent.
C6_StartDatePriority ==
    stream = "daily_prices" /\ RequestBuilt =>
        LET start == IF replicationKeyValue # "" THEN replicationKeyValue
                     ELSE config.start_date
        IN IF start = ""
           THEN "startDate" \notin DOMAIN params
           ELSE "startDate" \in DOMAIN params /\ params["startDate"] = start

\* C7: whenever the configuration sets end_date, every request built for a
\* daily_prices partition carries endDate equal to it.
C7_EndDateSent ==
    stream = "daily_prices" /\ RequestBuilt /\ config.end_date # "" =>
        "endDate" \in DOMAIN params /\ params["endDate"] = config.end_date

\* C8: when the response just fetched carries no next-page indicator, the
\* paginator returns none, the loop ends and no further fetch is issued;
\* each pass of the loop issues exactly one fetch, one after the other.
C8_State ==
    /\ Len(fetched) <= iterations
    /\ iterations <= Len(fetched) + 1
    /\ rpc \in {"l158", "l159", "done"} => iterations = Len(fetched)
    /\ rpc = "done" => resp.next = "" /\ next_page_token = "" /\ pending = <<>>

C8_Step ==
    /\ rpc = "l159" /\ pending = <<>> /\ resp.next = "" =>
        rpc' = "done" /\ next_page_token' = "" /\ fetched' = fetched
    /\ rpc = "done" => fetched' = fetched /\ rpc' = "done"
    /\ fetched' # fetched =>
        rpc = "l156" /\ Len(fetched') = Len(fetched) + 1

\* C8, both parts: the counts in every state, and every step of the loop.
C8_NoIndicatorEndsLoop == [](C8_State) /\ [][C8_Step]_vars

\* C8 witness: a one-page upstream: one fetch, its records yielded, the
\* response without indicator, the loop ended.
C8_Witness ==
    /\ rpc = "done"
    /\ Len(fetched) = 1
    /\ iterations = 1
    /\ resp.next = ""
    /\ Len(emitted) = MaxRecs

\* C9: when the paginator returns a token, the next request is built from
\* it, so that no page is fetched and emitted twice and the run ends once
\* the upstream has no more pages.
C9_TokenAdvancesRequest ==
    /\ rpc = "l156" /\ next_page_token # "" =>
        ServedPage(params) = PageOfToken(next_page_token)
    /\ \A i, j \in 1..Len(fetched) : i # j => fetched[i] # fetched[j]
    /\ \A i, j \in 1..Len(emitted) : i # j => emitted[i] # emitted[j]
    /\ Len(fetched) <= upstream.pages

(***************************************************************************)
(* Claims about post_process (SpecXform).                                  *)
(***************************************************************************)

\* C10: every record post_process returns for a partition has a ticker
\* field equal to the partition's ticker, whatever the raw record held under
\* ticker; nothing is returned when the partition has no ticker.
C10_TickerIsPartitionTicker ==
    /\ xpc = "returned" =>
        /\ ~MissingTicker(xcontext)
        /\ HasKey(out, "ticker")
        /\ Get(out, "ticker") = Str(xcontext.ticker)
        /\ Cardinality({i \in 1..Len(out) : out[i][1] = "ticker"}) = 1
    /\ xpc # "returned" => out = <<>>

\* C10 witness: the raw record carried another ticker than the partition's
\* and the record returned carries the partition's.
C10_Witness ==
    /\ xpc = "returned"
    /\ HasKey(raw, "ticker")
    /\ Get(raw, "ticker") # Str(xcontext.ticker)
    /\ Get(out, "ticker") = Str(xcontext.ticker)
    /\ xstream = "daily_prices"

(***************************************************************************)
(* Claims about a missing partition context (SpecCtx).                     *)
(***************************************************************************)

\* C11: with no partition context, or a context without a ticker,
\* post_process returns no record and get_records builds no url and issues
\* no fetch: each fails with ValueError on its first step, and get_records
\* does not go round its loop again.
C11_NoTickerNoRecordNoFetch ==
    (context \in {NoContext, EmptyContext} /\ xcontext = context) =>
        /\ xpc \in {"call", "raised"}
        /\ out = <<>>
        /\ rpc \in {"l153", "raised"}
        /\ rpc = "raised" => rerror = "ValueError"
        /\ url = NoUrl
        /\ fetched = <<>>
        /\ emitted = <<>>
        /\ iterations <= 1

\* C11 witness: a context that is a mapping without "ticker" made both
\* post_process and get_records raise.
C11_Witness ==
    /\ context = EmptyContext
    /\ xcontext = EmptyContext
    /\ xpc = "raised"
    /\ rpc = "raised"
    /\ rerror = "ValueError"
    /\ fetched = <<>>

(***************************************************************************)
(* Claims about an unusable tickers setting (SpecCache).                   *)
(***************************************************************************)

\* C12: whenever the tickers setting is neither "*" nor a sequence of
\* strings (a list with a non-string element included), get_cached_tickers
\* returns no partition list to any caller and caches none.
C12_NonStringListRejected ==
    ~(\/ IsSentinel(tickers_config)
      \/ /\ tickers_config.kind = "list"
         /\ \A i \in 1..Len(tickers_config.items) : tickers_config.items[i].isStr)
    => /\ cached_tickers = None
       /\ \A t \in Threads : ~Returned(t) /\ ret[t] = None

(***************************************************************************)
(* Claims about a page that does not parse (SpecRun).                      *)
(***************************************************************************)

C13_State ==
    /\ resp.shape \in {"malformed", "scalar", "array_of_scalars"} =>
        /\ rpc \in {"l158", "raised"}
        /\ pending = <<>>
        /\ rpc = "raised" => rerror = "ParseException"
    /\ rerror = "ParseException" =>
        /\ rpc = "raised"
        /\ resp.shape \in {"malformed", "scalar", "array_of_scalars"}

C13_Step ==
    resp.shape \in {"malformed", "scalar", "array_of_scalars"} =>
        /\ emitted' = emitted
        /\ fetched' = fetched
        /\ rpc' = "raised"
        /\ rerror' = "ParseException"

\* C13: when the body of a page is no JSON, is neither object nor array, or
\* is an array with an element that is no object, parse_response raises
\* before it yields: from the moment that page is fetched nothing more is
\* emitted and nothing more is fetched, and get_records ends with the parse
\* error, never normally.
C13_ParseFailureAborts == [](C13_State) /\ [][C13_Step]_vars

\* C13 witness: a first page was fetched and its records emitted, the second
\* response was an array with a non-object element, and the run ended with
\* the parse error, the first page's records being all that was emitted.
C13_Witness ==
    /\ rpc = "raised"
    /\ rerror = "ParseException"
    /\ resp.shape = "array_of_scalars"
    /\ Len(fetched) = 2
    /\ Len(emitted) = MaxRecs
    /\ stream = "daily_prices"

(***************************************************************************)
(* Claims about the order of the records (SpecSync).                       *)
(***************************************************************************)

C14_State ==
    /\ syncpc \in {"loop", "end"} =>
        IF IsSentinel(tickers_config)
        THEN partitions = <<TickerContext("AAPL"), TickerContext("GOOGL"),
                            TickerContext("MSFT"), TickerContext("TSLA")>>
        ELSE /\ Len(partitions) = Len(tickers_config.items)
             /\ \A i \in 1..Len(partitions) :
                    partitions[i] = TickerContext(tickers_config.items[i].v)
    /\ Len(startsAt) = partIdx
    /\ partIdx >= 1 =>
        /\ partitions # <<>> => context = partitions[partIdx]
        /\ startsAt[partIdx] <= Len(emitted)
        /\ \A i \in 1..(partIdx - 1) : startsAt[i] <= startsAt[i + 1]
        /\ \A i, j \in (startsAt[partIdx] + 1)..Len(emitted) :
                i < j => emitted[i].page <= emitted[j].page

C14_Step ==
    /\ emitted' # emitted =>
        /\ pending # <<>>
        /\ emitted' = Append(emitted, Head(pending))
        /\ pending' = Tail(pending)
        /\ partIdx' = partIdx
    /\ fetched' # fetched /\ fetched' # <<>> => pending = <<>>
    /\ pending' # pending /\ pending # <<>> => pending' = Tail(pending)
    /\ pending' # pending /\ pending = <<>> =>
        /\ \A i \in 1..Len(pending') : pending'[i].page = resp.page
        /\ resp.shape = "array" /\ records_jsonpath(stream) = "$[*]" =>
            /\ Len(pending') = resp.recs
            /\ \A i \in 1..Len(pending') : pending'[i].idx = i
    /\ partIdx' # partIdx =>
        /\ partIdx' = partIdx + 1
        /\ rpc = "done"
        /\ pending = <<>>
        /\ emitted' = emitted

\* C14: the partitions are the configured tickers in the configured order,
\* one per entry; get_records runs for them one after the other, each begun
\* only when the one before is exhausted; within a partition a page is
\* yielded whole, in the order of its array, before the next page is
\* fetched, and what was emitted is only ever appended to.
C14_RecordsInOrder == [](C14_State) /\ [][C14_Step]_vars

\* C14 witness: two configured tickers, MSFT before AAPL; the sync ended
\* with the records of MSFT's page before those of AAPL's.
C14_Witness ==
    /\ syncpc = "end"
    /\ partitions = <<TickerContext("MSFT"), TickerContext("AAPL")>>
    /\ partIdx = 2
    /\ startsAt = <<0, MaxRecs>>
    /\ Len(emitted) = 2 * MaxRecs
    /\ stream = "daily_prices"

(***************************************************************************)
(* Claims about the records of a parsed page (SpecRun).                    *)
(***************************************************************************)

\* C15: for every stream, parse_response gives exactly one record, the
\* object, for a body that is a single object, and exactly n records, the
\* elements in array order, for a body that is an array of n objects.
C15_BothShapesEveryStream ==
    [][rpc = "l158" /\ rpc' = "l159" =>
        /\ resp.shape = "object" =>
            /\ Len(pending') = 1
            /\ pending'[1].is = "object"
        /\ resp.shape = "array" =>
            /\ Len(pending') = resp.recs
            /\ \A i \in 1..Len(pending') :
                pending'[i].is = "object" /\ pending'[i].idx = i]_vars

(***************************************************************************)
(* Claims about the fields of a record (SpecXform).                        *)
(***************************************************************************)

\* C16: for every upstream record, one with extra or missing keys included,
\* the record post_process returns for a stream has exactly the fields the
\* stream's schema declares: none outside it and none of it missing.
C16_ExactlyDeclaredFields ==
    (xpc = "returned" /\ xstream \in Streams) =>
        /\ Keys(out) \subseteq schema(xstream)
        /\ schema(xstream) \subseteq Keys(out)


(***************************************************************************)
(* Claims about the surrogate key (SpecKey).                               *)
(***************************************************************************)

\* C17: the surrogate key is the same for the same record, and two records
\* with the same keys in the same order get different surrogate keys
\* whenever a field value differs between them, values holding the
\* delimiter or differing only in type included.
C17_KeyDeterministicAndDistinct ==
    kpc = "returned" =>
        /\ dataA = dataB => keyA = keyB
        /\ dataA # dataB => keyA # keyB


(***************************************************************************)
(* Claims about what is logged and raised (SpecLog).                       *)
(***************************************************************************)

\* C18: no message logged on the fetch and parse path, and no exception let
\* out of it, holds the value of an api_key: not the message before each
\* attempt, not the on_backoff warning with the exception in it, not the
\* parse-error message, not the exception raised.
C18_NoCredentialLoggedOrRaised ==
    /\ \A i \in 1..Len(logs) : \A j \in 1..Len(logs[i]) : logs[i][j] # Secret
    /\ \A j \in 1..Len(lerror) : lerror[j] # Secret


(***************************************************************************)
(* Claims about _to_snake_case (SpecSnake).                                *)
(***************************************************************************)

\* C19: _to_snake_case applied to its own result gives that result again,
\* and its result holds no upper-case letter; adjClose becomes adj_close and
\* splitFactor becomes split_factor.
C19_SnakeCaseIdempotent ==
    /\ spc \in {"once", "twice"} =>
        /\ \A i \in 1..Len(snake) : ~IsUpper(snake[i])
        /\ camel_str = <<"a", "d", "j", "C", "l", "o", "s", "e">> =>
            snake = <<"a", "d", "j", "_", "c", "l", "o", "s", "e">>
        /\ camel_str = <<"s", "p", "l", "i", "t", "F", "a", "c", "t", "o", "r">> =>
            snake = <<"s", "p", "l", "i", "t", "_", "f", "a", "c", "t", "o", "r">>
    /\ spc = "twice" => again = snake

\* C19 witness: adjClose went through twice: adj_close both times.
C19_Witness ==
    /\ spc = "twice"
    /\ camel_str = <<"a", "d", "j", "C", "l", "o", "s", "e">>
    /\ snake = <<"a", "d", "j", "_", "c", "l", "o", "s", "e">>
    /\ again = snake


(***************************************************************************)
(* Claims about a failing get_cached_tickers (SpecCacheFair).              *)
(***************************************************************************)

C20_State ==
    ~ValidConfig(tickers_config) =>
        /\ cached_tickers = None
        /\ computations = 0
        /\ \A t \in Threads :
            /\ ~Returned(t)
            /\ ret[t] = None
            /\ pc[t] \notin {"l73_exit", "l90_exit", "l91"}
            /\ pc[t] \in {"idle", "l68", "l71"} => ticker_lock # t

\* C20: on a tickers setting that makes get_cached_tickers raise, the cache
\* stays unset and the lock is free again when the call has ended; whatever
\* the interleaving, every thread that has called comes to the end of its
\* call, having raised the same error, and none gets a list.
C20_FailureLeavesCacheAndLock ==
    /\ [](C20_State)
    /\ \A t \in Threads :
        (~ValidConfig(tickers_config) /\ pc[t] # "idle")
            ~> (pc[t] = "idle" /\ retPath[t] = "raised" /\ ticker_lock # t)

\* C20 witness: on a setting that is a ticker string, every thread has
\* called and raised, the cache is unset and the lock free.
C20_Witness ==
    /\ tickers_config = StrConfig("AAPL")
    /\ \A t \in Threads : pc[t] = "idle" /\ retPath[t] = "raised"
    /\ cached_tickers = None
    /\ ticker_lock = 0

====
